---- MODULE Spec2Model ----
(***************************************************************************)
(* Model of the two gate-demonstration drivers:                            *)
(*   BraketQuantumGateExamples (braket_examples.py) and                    *)
(*   QuantumGateExamples       (qiskit_examples.py).                       *)
(* The runner object, the eight demonstration methods and run_all_examples *)
(* are translated statement by statement; the execution backend (device /  *)
(* simulator) is the environment.                                          *)
(***************************************************************************)
EXTENDS Integers, Sequences, FiniteSets, TLC

VARIABLES self, self0, backendKind, pc, top, idx, cur, circuit, outstanding,
          result, counts, started, done, submits, out, exc, raised, failedAt,
          ret, ncalls

vars == <<self, self0, backendKind, pc, top, idx, cur, circuit, outstanding,
          result, counts, started, done, submits, out, exc, raised, failedAt,
          ret, ncalls>>

(* ---------------------------------------------------------------- bounds *)
\* top-level calls (run_all_examples or a single demonstration) per behaviour
MaxCalls == 2
\* the backend's sampled outcomes are drawn from splits k*Shots/NumSplits
NumSplits == 2

(* ------------------------------------------------------------- constants *)
\* shots=1000 in every device.run / execute call
Shots == 1000

\* Python's None
None == "None"

\* device_arn values tried at construction: absent, empty, the example ARN
DeviceArns == {None, "", "arn:aws:braket:::device/qpu/ionq/ionQdevice"}

\* the single class of failure a backend raises (connectivity,
\* authentication, invalid sequence)
BackendErrors == {"ConnectivityError", "AuthenticationError", "InvalidSequence"}

(* ----------------------------------------------------------- construction *)
\* Python truthiness of the device_arn argument
Truthy(x) == x \notin {None, ""}

\* BraketQuantumGateExamples.__init__: the if/else choosing self.device
SelectDevice(use_aws, device_arn) ==
    IF use_aws /\ Truthy(device_arn)
      THEN [kind |-> "AwsDevice", arn |-> device_arn]
      ELSE [kind |-> "LocalSimulator", arn |-> None]

\* BraketQuantumGateExamples.__init__
BraketInit(use_aws, device_arn) ==
    [class |-> "BraketQuantumGateExamples",
     device |-> SelectDevice(use_aws, device_arn),
     use_aws |-> use_aws,
     device_arn |-> device_arn]

\* QuantumGateExamples.__init__
QiskitInit ==
    [class |-> "QuantumGateExamples",
     simulator |-> [kind |-> "qasm_simulator", arn |-> None]]

IsBraket(s) == s.class = "BraketQuantumGateExamples"

\* the backend handle a demonstration submits to
Backend(s) == IF IsBraket(s) THEN s.device ELSE s.simulator

(* --------------------------------------------------------------- circuits *)
\* one gate applied to one qubit position: circuit.x(0), qc.h(0), ...
G(g, q) == [gate |-> g, target |-> q]

\* qc.measure(0, 0): measure qubit q into classical bit 0
M(q) == [gate |-> "measure", target |-> q]

\* Circuit() followed by the gate calls and result_type.sample(Z)
BraketCircuit(instrs) == [instrs |-> instrs, result_types |-> <<"Sample(Z)">>]

\* QuantumCircuit(qubits, 1, name=...) followed by the gate calls and measure
QiskitCircuit(qubits, name, instrs) ==
    [name |-> name, qubits |-> qubits, clbits |-> 1, instrs |-> instrs]

\* braket_examples.py, the circuit each demonstration method builds
pauli_x_gate_example == BraketCircuit(<<G("x", 0)>>)

pauli_y_gate_example == BraketCircuit(<<G("y", 0)>>)

pauli_z_gate_example == BraketCircuit(<<G("h", 0), G("z", 0)>>)

phase_gate_example == BraketCircuit(<<G("h", 0), G("s", 0)>>)

t_gate_example == BraketCircuit(<<G("h", 0), G("t", 0)>>)

hadamard_gate_example == BraketCircuit(<<G("h", 0)>>)

\* mutant: the second circuit.h(0) is missing
hadamard_twice_example_single == BraketCircuit(<<G("h", 0)>>)

hadamard_twice_example == BraketCircuit(<<G("h", 0), G("h", 0)>>)

\* mutant: the S gate is applied before the X gate
complex_circuit_example_reordered ==
    BraketCircuit(<<G("h", 0), G("s", 0), G("x", 0), G("h", 0)>>)

complex_circuit_example ==
    BraketCircuit(<<G("h", 0), G("x", 0), G("s", 0), G("h", 0)>>)

\* qiskit_examples.py, the circuit each demonstration method builds
\* mutant: qc.x(0) is missing, the qubit is measured as prepared
pauli_x_gate_missing == QiskitCircuit(1, "Pauli-X Example", <<M(0)>>)

pauli_x_gate == QiskitCircuit(1, "Pauli-X Example", <<G("x", 0), M(0)>>)

pauli_y_gate == QiskitCircuit(1, "Pauli-Y Example", <<G("y", 0), M(0)>>)

pauli_z_gate ==
    QiskitCircuit(2, "Pauli-Z Example", <<G("h", 0), G("z", 0), M(0)>>)

phase_gate ==
    QiskitCircuit(1, "Phase Gate Example", <<G("h", 0), G("s", 0), M(0)>>)

t_gate == QiskitCircuit(1, "T Gate Example", <<G("h", 0), G("t", 0), M(0)>>)

hadamard_gate == QiskitCircuit(1, "Hadamard Gate Example", <<G("h", 0), M(0)>>)

hadamard_twice ==
    QiskitCircuit(1, "Double Hadamard Example", <<G("h", 0), G("h", 0), M(0)>>)

gate_combination_circuit ==
    QiskitCircuit(1, "Gate Combination",
                  <<G("h", 0), G("x", 0), G("s", 0), G("h", 0), M(0)>>)

\* the circuit built by the method named m
BuildCircuit(m) ==
    CASE m = "pauli_x_gate_example" -> pauli_x_gate_example
      [] m = "pauli_y_gate_example" -> pauli_y_gate_example
      [] m = "pauli_z_gate_example" -> pauli_z_gate_example
      [] m = "phase_gate_example" -> phase_gate_example
      [] m = "t_gate_example" -> t_gate_example
      [] m = "hadamard_gate_example" -> hadamard_gate_example
      [] m = "hadamard_twice_example" -> hadamard_twice_example
      [] m = "complex_circuit_example" -> complex_circuit_example
      [] m = "pauli_x_gate" -> pauli_x_gate
      [] m = "pauli_y_gate" -> pauli_y_gate
      [] m = "pauli_z_gate" -> pauli_z_gate
      [] m = "phase_gate" -> phase_gate
      [] m = "t_gate" -> t_gate
      [] m = "hadamard_gate" -> hadamard_gate
      [] m = "hadamard_twice" -> hadamard_twice
      [] m = "gate_combination_circuit" -> gate_combination_circuit

\* the calls of BraketQuantumGateExamples.run_all_examples, in program order
BraketRunAll ==
    <<"pauli_x_gate_example", "pauli_y_gate_example", "pauli_z_gate_example",
      "phase_gate_example", "t_gate_example", "hadamard_gate_example",
      "hadamard_twice_example", "complex_circuit_example">>

\* the calls of QuantumGateExamples.run_all_examples, in program order
QiskitRunAll ==
    <<"pauli_x_gate", "pauli_y_gate", "pauli_z_gate", "phase_gate", "t_gate",
      "hadamard_gate", "hadamard_twice", "gate_combination_circuit">>

\* mutant: the third and fourth calls of run_all_examples change places
RunAllOrder_swapped(s) ==
    LET order == IF IsBraket(s) THEN BraketRunAll ELSE QiskitRunAll
    IN [k \in 1..Len(order) |->
          IF k = 3 THEN order[4] ELSE IF k = 4 THEN order[3] ELSE order[k]]

RunAllOrder(s) == IF IsBraket(s) THEN BraketRunAll ELSE QiskitRunAll

\* the demonstration methods of the runner's class
Methods(s) == {RunAllOrder(s)[k] : k \in 1..Len(RunAllOrder(s))}

\* the report title each method prints ("=== Pauli-X Gate ... ===")
Title(m) ==
    CASE m \in {"pauli_x_gate_example", "pauli_x_gate"} -> "Pauli-X"
      [] m \in {"pauli_y_gate_example", "pauli_y_gate"} -> "Pauli-Y"
      [] m \in {"pauli_z_gate_example", "pauli_z_gate"} -> "Pauli-Z"
      [] m \in {"phase_gate_example", "phase_gate"} -> "Phase (S)"
      [] m \in {"t_gate_example", "t_gate"} -> "T"
      [] m \in {"hadamard_gate_example", "hadamard_gate"} -> "Hadamard"
      [] m \in {"hadamard_twice_example", "hadamard_twice"} -> "Double Hadamard"
      [] m \in {"complex_circuit_example", "gate_combination_circuit"}
           -> "Composite"

\* the gates of a circuit, in order, without the measurement
GateInstrs(c) == SelectSeq(c.instrs, LAMBDA ins : ins.gate # "measure")

Gates(c) == [k \in 1..Len(GateInstrs(c)) |-> GateInstrs(c)[k].gate]

Targets(c) == {GateInstrs(c)[k].target : k \in 1..Len(GateInstrs(c))}

(* ---------------------------------------------------------------- backend *)
(* Amplitudes are exact: <<a, b, c, d>> stands for a + b*w + c*w^2 + d*w^3 *)
(* with w = e^(i*pi/4), w^4 = -1 and i = w^2.  The common factor 1/sqrt(2) *)
(* of a Hadamard is dropped: only whether an amplitude is zero matters for *)
(* which outcomes a noiseless measurement can give.                        *)
Zero == <<0, 0, 0, 0>>

One == <<1, 0, 0, 0>>

Add(u, v) == [k \in 1..4 |-> u[k] + v[k]]

Neg(u) == [k \in 1..4 |-> 0 - u[k]]

\* multiplication by w = e^(i*pi/4)
MulW(u) == <<0 - u[4], u[1], u[2], u[3]>>

\* multiplication by i
MulI(u) == MulW(MulW(u))

\* the gate matrices of the docstrings, applied to the state <<amp0, amp1>>
ApplyGate(g, st) ==
    CASE g = "x" -> <<st[2], st[1]>>
      [] g = "y" -> <<Neg(MulI(st[2])), MulI(st[1])>>
      [] g = "z" -> <<st[1], Neg(st[2])>>
      [] g = "s" -> <<st[1], MulI(st[2])>>
      [] g = "t" -> <<st[1], MulW(st[2])>>
      [] g = "h" -> <<Add(st[1], st[2]), Add(st[1], Neg(st[2]))>>

RECURSIVE ApplyGates(_, _, _)
ApplyGates(gs, k, st) ==
    IF k > Len(gs) THEN st ELSE ApplyGates(gs, k + 1, ApplyGate(gs[k], st))

\* the state of qubit 0 before measurement, starting from |0>
FinalState(c) == ApplyGates(Gates(c), 1, <<One, Zero>>)

\* the outcomes a noiseless Z-basis measurement of the circuit can give
IdealOutcomes(c) == {b \in {0, 1} : FinalState(c)[b + 1] # Zero}

\* Shots measurement rows: the first n rows read bit lead, the others 1-lead
Rows(n, lead) == [k \in 1..Shots |-> IF k <= n THEN <<lead>> ELSE <<1 - lead>>]

\* the sampled outcome lists the backend is tried with
RowChoices ==
    {Rows((k * Shots) \div NumSplits, lead) : k \in 0..NumSplits, lead \in {0, 1}}

\* what a backend of the given kind may return for a submitted circuit:
\* one outcome per shot; a noiseless backend only outcomes of non-zero amplitude
BackendRows(kind, c) ==
    IF kind = "noiseless"
      THEN {rows \in RowChoices :
              \A k \in 1..Len(rows) : rows[k][1] \in IdealOutcomes(c)}
      ELSE RowChoices

(* ----------------------------------------------------------------- counts *)
\* tuple(measurement): the row's entries as a tuple
ToTuple(row) == [j \in 1..Len(row) |-> row[j]]

\* the generator expression: tuple(measurement) for measurement in measurements
Tuples(rows) == [k \in 1..Len(rows) |-> ToTuple(rows[k])]

\* mutant: the last item is not counted
Counter_dropping(items) ==
    [key \in {items[k] : k \in 1..Len(items)} |->
       Cardinality({k \in 1..(Len(items) - 1) : items[k] = key})]

\* collections.Counter(items): each distinct item with its number of occurrences
Counter(items) ==
    [key \in {items[k] : k \in 1..Len(items)} |->
       Cardinality({k \in 1..Len(items) : items[k] = key})]

\* the bit-string key of a Qiskit counts dict (one classical bit)
BitString(row) == IF row[1] = 0 THEN "0" ELSE "1"

\* result.get_counts(qc): the simulator's histogram of its shots
GetCounts(rows) ==
    LET keys == {BitString(rows[k]) : k \in 1..Len(rows)}
    IN [key \in keys |->
          Cardinality({k \in 1..Len(rows) : BitString(rows[k]) = key})]

\* the sum of the values of a counts mapping
RECURSIVE SumOver(_, _)
SumOver(c, keys) ==
    IF keys = {} THEN 0
    ELSE LET key == CHOOSE x \in keys : TRUE
         IN c[key] + SumOver(c, keys \ {key})

Total(c) == SumOver(c, DOMAIN c)

(* ------------------------------------------------------------------ state *)
\* a local variable that is not bound
Unbound == <<>>

\* nothing returned (yet) by a demonstration
NoReturn == [set |-> FALSE, counts |-> Unbound, circuit |-> Unbound]

\* device_info of BraketQuantumGateExamples.run_all_examples
DeviceInfo(s) == IF s.use_aws THEN "AWS Cloud" ELSE "Local Simulator"

\* str.upper() on the two device_info texts
Upper(t) == IF t = "AWS Cloud" THEN "AWS CLOUD" ELSE "LOCAL SIMULATOR"

\* the opening banner of run_all_examples
Header(s) ==
    IF IsBraket(s)
      THEN [kind |-> "header", text |-> "QUANTUM GATES WITH AMAZON BRAKET",
            label |-> Upper(DeviceInfo(s))]
      ELSE [kind |-> "header",
            text |-> "QUANTUM GATES WITH QISKIT - COMPREHENSIVE EXAMPLES",
            label |-> None]

\* the closing banner of run_all_examples
Footer ==
    [kind |-> "footer", text |-> "All examples completed successfully!",
     label |-> None]

\* the state right after construction of a runner
Init ==
    /\ \/ \E use_aws \in BOOLEAN, device_arn \in DeviceArns :
            self = BraketInit(use_aws, device_arn)
       \/ self = QiskitInit
    /\ self0 = self
    /\ backendKind \in {"noiseless", "noisy"}
    /\ pc = "idle"
    /\ top = "none"
    /\ idx = 0
    /\ cur = None
    /\ circuit = Unbound
    /\ outstanding = 0
    /\ result = Unbound
    /\ counts = Unbound
    /\ started = <<>>
    /\ done = <<>>
    /\ submits = <<>>
    /\ out = <<>>
    /\ exc = None
    /\ raised = None
    /\ failedAt = 0
    /\ ret = NoReturn
    /\ ncalls = 0

\* what every new top-level call starts from
NewCall ==
    /\ pc = "idle"
    /\ ncalls < MaxCalls
    /\ ncalls' = ncalls + 1
    /\ submits' = <<>>
    /\ done' = <<>>
    /\ exc' = None
    /\ raised' = None
    /\ failedAt' = 0
    /\ ret' = NoReturn
    /\ UNCHANGED <<self, self0, backendKind, circuit, outstanding, result, counts>>

\* the caller invokes one demonstration method directly
CallDemo ==
    \E m \in Methods(self) :
      /\ NewCall
      /\ top' = "single"
      /\ idx' = 0
      /\ cur' = m
      /\ started' = <<m>>
      /\ out' = <<>>
      /\ pc' = "build"

\* run_all_examples is entered: the opening banner is printed
RunAllBegin ==
    /\ NewCall
    /\ top' = "run_all"
    /\ idx' = 1
    /\ cur' = None
    /\ started' = <<>>
    /\ out' = <<Header(self)>>
    /\ pc' = "run_all"

\* run_all_examples calls its next demonstration method
RunAllNext ==
    /\ pc = "run_all"
    /\ idx <= Len(RunAllOrder(self))
    /\ cur' = RunAllOrder(self)[idx]
    /\ started' = Append(started, RunAllOrder(self)[idx])
    /\ ret' = NoReturn
    /\ pc' = "build"
    /\ UNCHANGED <<self, self0, backendKind, top, idx, circuit, outstanding,
                   result, counts, done, submits, out, exc, raised, failedAt,
                   ncalls>>

\* run_all_examples prints the closing banner and returns
RunAllEnd ==
    /\ pc = "run_all"
    /\ idx > Len(RunAllOrder(self))
    /\ out' = Append(out, Footer)
    /\ ret' = NoReturn
    /\ pc' = "idle"
    /\ UNCHANGED <<self, self0, backendKind, top, idx, cur, circuit,
                   outstanding, result, counts, started, done, submits, exc, raised,
                   failedAt, ncalls>>

\* a demonstration builds its circuit
Build ==
    /\ pc = "build"
    /\ circuit' = BuildCircuit(cur)
    /\ pc' = "run"
    /\ UNCHANGED <<self, self0, backendKind, top, idx, cur, outstanding,
                   result, counts, started, done, submits, out, exc, raised,
                   failedAt, ret, ncalls>>

\* mutant: the task is started but its result is not waited for
Submit_nowait ==
    /\ pc = "run"
    /\ submits' = Append(submits, [backend |-> Backend(self), circuit |-> circuit,
                                   shots |-> Shots, by |-> cur])
    /\ outstanding' = outstanding + 1
    /\ counts' = Unbound
    /\ pc' = "print"
    /\ UNCHANGED <<self, self0, backendKind, top, idx, cur, circuit, result,
                   started, done, out, exc, raised, failedAt, ret, ncalls>>

\* self.device.run(circuit, shots=1000) / execute(qc, self.simulator, shots=1000)
Submit ==
    /\ pc = "run"
    /\ submits' = Append(submits, [backend |-> Backend(self), circuit |-> circuit,
                                   shots |-> Shots, by |-> cur])
    /\ outstanding' = outstanding + 1
    /\ pc' = "wait"
    /\ UNCHANGED <<self, self0, backendKind, top, idx, cur, circuit, result,
                   counts, started, done, out, exc, raised, failedAt, ret, ncalls>>

\* .result() returns: the blocking call hands back the backend's outcomes
BackendReturn ==
    /\ pc = "wait"
    /\ \E rows \in BackendRows(backendKind, circuit) : result' = rows
    /\ outstanding' = outstanding - 1
    /\ pc' = "tally"
    /\ UNCHANGED <<self, self0, backendKind, top, idx, cur, circuit, counts,
                   started, done, submits, out, exc, raised, failedAt, ret, ncalls>>

\* mutant: run_all_examples isolates the failure and goes on with the next call
BackendFail_isolated ==
    /\ pc = "wait"
    /\ \E e \in BackendErrors : raised' = e /\ exc' = e
    /\ outstanding' = outstanding - 1
    /\ failedAt' = Len(started)
    /\ circuit' = Unbound
    /\ IF top = "run_all"
         THEN pc' = "run_all" /\ idx' = idx + 1
         ELSE pc' = "idle" /\ idx' = idx
    /\ UNCHANGED <<self, self0, backendKind, top, cur, result, counts,
                   started, done, submits, out, ret, ncalls>>

\* mutant: the demonstration submits again after a failure
BackendFail_retry ==
    /\ pc = "wait"
    /\ \E e \in BackendErrors : raised' = e
    /\ outstanding' = outstanding - 1
    /\ pc' = "run"
    /\ UNCHANGED <<self, self0, backendKind, top, idx, cur, circuit, result,
                   counts, started, done, submits, out, exc, failedAt, ret,
                   ncalls>>

\* the backend raises: nothing catches it, neither in the demonstration nor in
\* run_all_examples, so it reaches the caller
BackendFail ==
    /\ pc = "wait"
    /\ \E e \in BackendErrors : raised' = e /\ exc' = e
    /\ outstanding' = outstanding - 1
    /\ failedAt' = Len(started)
    /\ circuit' = Unbound
    /\ pc' = "idle"
    /\ UNCHANGED <<self, self0, backendKind, top, idx, cur, result, counts,
                   started, done, submits, out, ret, ncalls>>

\* counts = Counter(tuple(m) for m in measurements) / result.get_counts(qc)
Tally ==
    /\ pc = "tally"
    /\ counts' = IF IsBraket(self) THEN Counter(Tuples(result))
                                   ELSE GetCounts(result)
    /\ pc' = "print"
    /\ UNCHANGED <<self, self0, backendKind, top, idx, cur, circuit,
                   outstanding, result, started, done, submits, out, exc, raised,
                   failedAt, ret, ncalls>>

\* the demonstration prints its report
Report ==
    /\ pc = "print"
    /\ out' = Append(out, [kind |-> "report", text |-> Title(cur), label |-> cur])
    /\ pc' = "return"
    /\ UNCHANGED <<self, self0, backendKind, top, idx, cur, circuit,
                   outstanding, result, counts, started, done, submits, exc, raised,
                   failedAt, ret, ncalls>>

\* mutant: the demonstration drops the device identifier / swaps the simulator
\* on the runner before it returns
Return_storing ==
    /\ pc = "return"
    /\ ret' = [set |-> TRUE, counts |-> counts, circuit |-> circuit]
    /\ self' = IF IsBraket(self)
                 THEN [self EXCEPT !.device_arn = None, !.use_aws = FALSE]
                 ELSE [self EXCEPT !.simulator.kind = "statevector_simulator"]
    /\ circuit' = Unbound
    /\ result' = Unbound
    /\ counts' = Unbound
    /\ done' = Append(done, cur)
    /\ IF top = "run_all"
         THEN pc' = "run_all" /\ idx' = idx + 1
         ELSE pc' = "idle" /\ idx' = idx
    /\ UNCHANGED <<self0, backendKind, top, cur, outstanding, started,
                   submits, out, exc, raised, failedAt, ncalls>>

\* return counts, circuit
Return ==
    /\ pc = "return"
    /\ ret' = [set |-> TRUE, counts |-> counts, circuit |-> circuit]
    /\ circuit' = Unbound
    /\ result' = Unbound
    /\ counts' = Unbound
    /\ done' = Append(done, cur)
    /\ IF top = "run_all"
         THEN pc' = "run_all" /\ idx' = idx + 1
         ELSE pc' = "idle" /\ idx' = idx
    /\ UNCHANGED <<self, self0, backendKind, top, cur, outstanding, started,
                   submits, out, exc, raised, failedAt, ncalls>>

Next ==
    \/ CallDemo
    \/ RunAllBegin
    \/ RunAllNext
    \/ RunAllEnd
    \/ Build
    \/ Submit
    \/ BackendReturn
    \/ BackendFail
    \/ Tally
    \/ Report
    \/ Return

Spec == Init /\ [][Next]_vars

TypeOK ==
    /\ pc \in {"idle", "run_all", "build", "run", "wait", "tally", "print", "return"}
    /\ top \in {"none", "single", "run_all"}
    /\ outstanding \in 0..1
    /\ ncalls \in 0..MaxCalls

(* ----------------------------------------------------------------- claims *)
\* the eight demonstrations in their declared order
FixedOrder ==
    <<"Pauli-X", "Pauli-Y", "Pauli-Z", "Phase (S)", "T", "Hadamard",
      "Double Hadamard", "Composite">>

\* the gate list each demonstration is declared to submit
FixedGates(title) ==
    CASE title = "Pauli-X" -> <<"x">>
      [] title = "Pauli-Y" -> <<"y">>
      [] title = "Pauli-Z" -> <<"h", "z">>
      [] title = "Phase (S)" -> <<"h", "s">>
      [] title = "T" -> <<"h", "t">>
      [] title = "Hadamard" -> <<"h">>
      [] title = "Double Hadamard" -> <<"h", "h">>
      [] title = "Composite" -> <<"h", "x", "s", "h">>

Titles(ms) == [k \in 1..Len(ms) |-> Title(ms[k])]

Kinds(o) == [k \in 1..Len(o) |-> o[k].kind]

Prefix(sq, n) == [k \in 1..n |-> sq[k]]

HasFooter == \E k \in 1..Len(out) : out[k].kind = "footer"

RunAllCompleted == top = "run_all" /\ pc = "idle" /\ failedAt = 0

\* C1: in both drivers one failure-free run_all_examples starts each of the 8
\* demonstrations exactly once, in the order Pauli-X, Pauli-Y, Pauli-Z,
\* Phase(S), T, Hadamard, double Hadamard, composite: at every moment of the
\* invocation the demonstrations started so far are a prefix of that order,
\* and at its end all 8 have been started, have returned and have reported,
\* between the opening and the closing banner.
C1_RunAllOrder ==
    top = "run_all" =>
      /\ Len(started) <= Len(FixedOrder)
      /\ Titles(started) = Prefix(FixedOrder, Len(started))
      /\ RunAllCompleted =>
           /\ Titles(started) = FixedOrder
           /\ done = started
           /\ Kinds(out) = <<"header", "report", "report", "report", "report",
                             "report", "report", "report", "report", "footer">>
           /\ \A k \in 1..Len(FixedOrder) : out[k + 1].text = FixedOrder[k]

C1_Witness ==
    /\ RunAllCompleted
    /\ HasFooter
    /\ Len(started) = 8
    /\ exc = None

\* C2: when the backend raises during the k-th demonstration of a
\* run_all_examples invocation, exactly k demonstrations have been started and
\* exactly k submissions made in that invocation, nothing is outstanding, the
\* closing banner is not printed, and the caller holds the failure the backend
\* raised.
C2_FailureHalts ==
    (top = "run_all" /\ failedAt > 0) =>
      /\ pc = "idle"
      /\ Len(started) = failedAt
      /\ Len(submits) = failedAt
      /\ Len(done) = failedAt - 1
      /\ outstanding = 0
      /\ ~HasFooter
      /\ exc \in BackendErrors
      /\ exc = raised

C2_Witness ==
    /\ top = "run_all"
    /\ failedAt = 4
    /\ Len(started) = 4
    /\ exc = "ConnectivityError"

CountsOK(c) == (\A key \in DOMAIN c : c[key] \in Nat) /\ Total(c) = 1000

\* C3: for a backend that returns one outcome per shot, the counts a
\* demonstration computes, prints and returns have non-negative integer values
\* that sum to the shot count 1000.
C3_CountsSumToShots ==
    /\ pc \in {"print", "return"} => CountsOK(counts)
    /\ ret.set => CountsOK(ret.counts)

C3_Witness ==
    /\ IsBraket(self)
    /\ ret.set
    /\ DOMAIN ret.counts = {<<0>>, <<1>>}
    /\ ret.counts[<<0>>] = 500

\* C4: every submission carries the hard-coded gate list of its demonstration
\* ([X], [Y], [H,Z], [H,S], [H,T], [H], [H,H], [H,X,S,H]), all gates on
\* position 0, with shots = 1000, in both drivers; and the sequence returned
\* with the counts is the one that was submitted.
C4_FixedGateLists ==
    /\ \A k \in 1..Len(submits) :
         /\ Gates(submits[k].circuit) = FixedGates(Title(submits[k].by))
         /\ Targets(submits[k].circuit) = {0}
         /\ submits[k].shots = 1000
    /\ ret.set =>
         /\ Len(submits) > 0
         /\ ret.circuit = submits[Len(submits)].circuit

C4_Witness ==
    /\ ret.set
    /\ Len(submits) = 8
    /\ Gates(ret.circuit) = <<"h", "x", "s", "h">>
    /\ submits[3].shots = 1000

\* C5: every demonstration call makes exactly one submission, to the backend
\* the runner was constructed with, whether it succeeds or fails; after a
\* failure nothing is resubmitted, no counts are returned and the caller holds
\* the failure exactly as the backend raised it.
C5_OneSubmission ==
    /\ Len(submits) =
         IF pc \in {"build", "run"} THEN Len(started) - 1 ELSE Len(started)
    /\ \A k \in 1..Len(submits) :
         /\ submits[k].by = started[k]
         /\ submits[k].backend = Backend(self0)
    /\ failedAt > 0 =>
         /\ pc = "idle"
         /\ ~ret.set
         /\ exc = raised
         /\ exc \in BackendErrors
    /\ failedAt = 0 => exc = None /\ raised = None

C5_Witness ==
    /\ top = "single"
    /\ failedAt = 1
    /\ Len(submits) = 1
    /\ exc = "AuthenticationError"
    /\ ~ret.set

\* the counts mapping that holds the one outcome bit, 1000 times
AllShots(bit) ==
    IF IsBraket(self) THEN (<<bit>> :> 1000)
    ELSE (IF bit = 0 THEN "0" ELSE "1") :> 1000

\* C6: with a noiseless backend the double-Hadamard demonstration returns
\* counts that map outcome 0 to 1000 and hold no other outcome.
C6_DoubleHadamardAllZero ==
    (backendKind = "noiseless" /\ ret.set /\ Title(cur) = "Double Hadamard")
      => ret.counts = AllShots(0)

C6_Witness ==
    /\ backendKind = "noiseless"
    /\ ret.set
    /\ cur = "hadamard_twice_example"
    /\ Gates(ret.circuit) = <<"h", "h">>
    /\ ret.counts = (<<0>> :> 1000)

\* C7: with a noiseless backend the Pauli-X demonstration returns counts that
\* map outcome 1 to 1000 and hold no other outcome.
C7_PauliXAllOne ==
    (backendKind = "noiseless" /\ ret.set /\ Title(cur) = "Pauli-X")
      => ret.counts = AllShots(1)

C7_Witness ==
    /\ backendKind = "noiseless"
    /\ ret.set
    /\ cur = "pauli_x_gate"
    /\ Gates(ret.circuit) = <<"x">>
    /\ ret.counts = ("1" :> 1000)

\* C8: execution is sequential: at most one submission is outstanding, none
\* while a demonstration builds or is about to submit, and inside
\* run_all_examples a demonstration builds, submits and waits only when every
\* demonstration started before it has got its result, printed its report and
\* returned.
C8_Sequential ==
    /\ outstanding \in {0, 1}
    /\ outstanding = 1 <=> pc = "wait"
    /\ top = "run_all" =>
         /\ pc \in {"build", "run", "wait", "tally", "print", "return"} =>
              /\ done = Prefix(started, Len(started) - 1)
              /\ Len(SelectSeq(out, LAMBDA o : o.kind = "report"))
                   = IF pc = "return" THEN Len(started) ELSE Len(started) - 1
         /\ pc = "run_all" =>
              /\ done = started
              /\ Len(SelectSeq(out, LAMBDA o : o.kind = "report")) = Len(started)

C8_Witness ==
    /\ top = "run_all"
    /\ pc = "wait"
    /\ outstanding = 1
    /\ Len(started) = 5
    /\ Len(done) = 4

\* C9: in the Braket driver use_aws alone selects the backend: the runner
\* holds the remote device when use_aws is true and the local simulator when
\* it is false, whatever device_arn is.
C9_UseAwsSelectsBackend ==
    IsBraket(self) =>
      self.device.kind = IF self.use_aws THEN "AwsDevice" ELSE "LocalSimulator"

\* C10: no demonstration and no run_all_examples call changes the runner: its
\* fields are those it was constructed with, and what a demonstration submits
\* (circuit, shots, backend) is fixed by the demonstration alone, whatever was
\* called before it and however often.
C10_RunnerUnchanged ==
    /\ self = self0
    /\ \A k \in 1..Len(submits) :
         submits[k] = [backend |-> Backend(self0),
                       circuit |-> BuildCircuit(submits[k].by),
                       shots |-> Shots,
                       by |-> submits[k].by]

C10_Witness ==
    /\ ncalls >= 2
    /\ RunAllCompleted
    /\ Len(submits) = 8
    /\ self = self0

\* the opening banner of the current run_all_examples invocation is printed
HeaderPrinted ==
    top = "run_all" /\ Len(out) >= 1 /\ out[1].kind = "header"

\* C11: in the Braket driver the device label of the run_all_examples opening
\* banner matches the backend the runner holds: it reads 'AWS CLOUD' only if
\* the held backend is the remote AWS device and 'LOCAL SIMULATOR' only if it
\* is the local simulator, for every use_aws and device_arn given at
\* construction.
C11_BannerMatchesBackend ==
    (IsBraket(self) /\ HeaderPrinted) =>
      /\ out[1].label = "AWS CLOUD" => self.device.kind = "AwsDevice"
      /\ out[1].label = "LOCAL SIMULATOR" => self.device.kind = "LocalSimulator"

====
